---- MODULE Spec2Model ----
(***************************************************************************)
(* Model of the bounded blocking message queue MessageQueuePosix           *)
(* (src/MessageQueue.cpp) as used through IMessageQueue                    *)
(* (src/MessageQueue.h).  Every thread may call push, pop (blocking or     *)
(* not), cancel, is_cancelled and size.  A call that takes m_mutex is a    *)
(* sequence of steps: the call with the acquisition of the mutex by the    *)
(* Locker, then the section executed under the mutex, which ends with the  *)
(* release of the mutex and the return.  The blocking pop has in addition  *)
(* the suspension in m_cond.wait, the wake-up, the re-acquisition of the   *)
(* mutex and the test made after the wait.  A thread blocked on the mutex  *)
(* in the constructor of its Locker has had no effect yet: it is a thread  *)
(* whose call has not started.                                             *)
(*                                                                         *)
(* The typed wrapper MessageQueueT<M> (src/MessageQueue.h) owns a queue    *)
(* m_impl and forwards every call to it.  A step of the wrapper is the     *)
(* step of m_impl together with what the wrapper does around it: push      *)
(* builds a MessageImpl<M> around the payload, pop recovers the payload    *)
(* from the message removed.  Spec is a program that uses the queue        *)
(* directly, TypedSpec one that uses it through the wrapper.               *)
(***************************************************************************)
EXTENDS Integers, Sequences, FiniteSets, TLC

\* ---------------------------------------------------------------- bounds
NumThreads == 4
MaxCalls == 4
MaxCap == 2

Threads == 1..NumThreads

\* The null shared pointer (a default constructed Message).
NoMsg == 0

\* The values of the payload type M; 0 is a default constructed M.
Payloads == {1, 2}
NoPayload == 0

VARIABLES
    m_max_capacity,  \* MessageQueuePosix::m_max_capacity
    m_cancelled,     \* MessageQueuePosix::m_cancelled
    m_mutex,         \* owner of m_mutex, 0 when free
    m_cond,          \* set of threads suspended in m_cond.wait
    m_queue,         \* MessageQueuePosix::m_queue
    pc,              \* position of every thread inside its current call
    op,              \* the operation a thread is executing
    arg,             \* the message argument of the thread's push
    ret,             \* the local variable ret of the thread's call
    message,         \* the caller's out parameter of pop
    returned,        \* the call that returned in the last step, if any
    pushed,          \* history: messages appended, in order of insertion
    popped,          \* history: messages removed, in order of removal
    cancelDone,      \* history: some cancel() call has returned
    calls,           \* number of calls started so far
    heap,            \* the MessageImpl<M> objects, by message
    warg,            \* the payload argument of MessageQueueT::push
    dst,             \* the caller's dst_message of MessageQueueT::pop
    wreturned,       \* the wrapper call that returned in the last step
    sent,            \* history: payloads of the successful wrapper pushes
    assert_failed    \* an assert of MessageQueueT::pop has failed

\* The variables of the queue m_impl and of the threads that call it.
ivars == <<m_max_capacity, m_cancelled, m_mutex, m_cond, m_queue, pc, op, arg,
           ret, message, returned, pushed, popped, cancelDone, calls>>

\* The variables of the typed wrapper and of its callers.
wvars == <<heap, warg, dst, wreturned, sent, assert_failed>>

vars == <<m_max_capacity, m_cancelled, m_mutex, m_cond, m_queue, pc, op, arg,
          ret, message, returned, pushed, popped, cancelDone, calls,
          heap, warg, dst, wreturned, sent, assert_failed>>

\* The queue, its flag and the histories.
qvars == <<m_max_capacity, m_cancelled, m_queue, pushed, popped, cancelDone>>

\* The locals of a thread and its out parameter.
tvars == <<op, arg, ret, message>>

\* ------------------------------------------------------ helper operators

IsPrefix(s, t) == Len(s) <= Len(t) /\ \A i \in 1..Len(s) : s[i] = t[i]

\* No call returned in the last step.
NoReturn == [thread |-> 0, op |-> "none", ret |-> 0, flag |-> FALSE]

\* No object: the message was never created or has been destroyed.
NoObject == [type |-> "none", m_payload |-> NoPayload]

\* The call of thread t returns r (and f for is_cancelled).
ReturnOf(t, o, r, f) == [thread |-> t, op |-> o, ret |-> r, flag |-> f]

\* MutexPosix / Locker: the constructor of Locker takes the mutex.
MutexFree(m) == m = 0

\* CondPosix::signal wakes one of the threads suspended in wait, if any.
CondSignal(ws) == IF ws = {} THEN {{}} ELSE {{w} : w \in ws}

\* CondPosix::broadcast wakes all the threads suspended in wait.
CondBroadcast(ws) == {ws}

\* Variants of the deque accessors that take the wrong end.
QueueBack(q) == q[Len(q)]
QueuePopBack(q) == SubSeq(q, 1, Len(q) - 1)

\* Variant of pop_front that leaves the head in the queue.
QueuePopFrontKeeps(q) == q

\* std::deque front() / pop_front() / push_back().
QueueFront(q) == Head(q)
QueuePopFront(q) == Tail(q)
QueuePushBack(q, m) == Append(q, m)

\* Variant of the capacity test that refuses on a cancelled queue.
PushAcceptsUnlessCancelled(size, cap) == size < cap /\ ~m_cancelled

\* Variant of the capacity test that admits one message too many.
PushAcceptsAtCapacity(size, cap) == size <= cap

\* push, line 125: the capacity test.
PushAccepts(size, cap) == size < cap

\* Variant of the signal test that signals after every insertion.
PushSignalsAlways(r) == r >= 1

\* Variant of the signal test made before the count is incremented.
PushSignalsBeforeIncrement(r) == r = 0

\* push, lines 129-133: the signal is sent when the new count is one.
PushSignals(r) == r = 1

\* Variant of the returned value that reports the count before insertion.
PushRetPreviousCount(size, cap) == IF PushAccepts(size, cap) THEN size ELSE 0

\* push, lines 124-138: the value returned.
PushRet(size, cap) == IF PushAccepts(size, cap) THEN size + 1 ELSE 0

\* Variant of the loop test that never looks at the flag.
PopLoopTestAlways(cancelled) == TRUE

\* blocking pop, line 82: the loop test.
PopLoopTest(cancelled) == ~cancelled

\* Variant of the test after wait that leaves the loop after any wake-up.
PopAfterWaitBreaksAlways(cancelled) == TRUE

\* blocking pop, line 93: the test after wait.
PopAfterWaitBreaks(cancelled) == cancelled

\* Variant of cancel that stores the wrong value.
CancelFlagCleared == FALSE

\* cancel, line 149: the value stored into the flag.
CancelFlag == TRUE

\* Variant of cancel that calls signal instead of broadcast.
CancelWakesOne(ws) == CondSignal(ws)

\* cancel, line 150: the threads woken.
CancelWakes(ws) == CondBroadcast(ws)

\* The positions of the threads after thread t left the queue and the
\* threads in woken were released from m_cond.wait.
PcAfter(t, woken) ==
    [u \in Threads |-> IF u = t THEN "idle"
                       ELSE IF u \in woken THEN "relock"
                       ELSE pc[u]]

\* The locals of thread t are gone when its call returns.
LocalsGone(t) ==
    /\ op' = [op EXCEPT ![t] = "out"]
    /\ arg' = [arg EXCEPT ![t] = NoMsg]
    /\ ret' = [ret EXCEPT ![t] = 0]

\* ------------------------------------------------------------------ Init

Init ==
    /\ m_max_capacity \in 0..MaxCap
    /\ m_cancelled = FALSE
    /\ m_mutex = 0
    /\ m_cond = {}
    /\ m_queue = <<>>
    /\ pc = [t \in Threads |-> "idle"]
    /\ op = [t \in Threads |-> "none"]
    /\ arg = [t \in Threads |-> NoMsg]
    /\ ret = [t \in Threads |-> 0]
    /\ message = [t \in Threads |-> NoMsg]
    /\ returned = NoReturn
    /\ pushed = <<>>
    /\ popped = <<>>
    /\ cancelDone = FALSE
    /\ calls = 0
    /\ heap = [m \in 1..MaxCalls |-> NoObject]
    /\ warg = [t \in Threads |-> NoPayload]
    /\ dst = [t \in Threads |-> NoPayload]
    /\ wreturned = NoReturn
    /\ sent = <<>>
    /\ assert_failed = FALSE

\* ----------------------------------------------------------------- calls

\* A thread that is outside the queue may start a call.  Threads are
\* interchangeable, so they are numbered in the order of their first call.
CanCall(t) ==
    /\ pc[t] = "idle" /\ calls < MaxCalls
    /\ IF t = 1 THEN TRUE ELSE op[t - 1] # "none"

\* A thread enters push(message): ret = 0, the Locker takes the mutex.
CallPush(t) ==
    /\ CanCall(t)
    /\ MutexFree(m_mutex)
    /\ m_mutex' = t
    /\ calls' = calls + 1
    /\ op' = [op EXCEPT ![t] = "push"]
    /\ arg' = [arg EXCEPT ![t] = calls + 1]
    /\ ret' = [ret EXCEPT ![t] = 0]
    /\ pc' = [pc EXCEPT ![t] = "cs"]
    /\ returned' = NoReturn
    /\ UNCHANGED <<qvars, m_cond, message>>

\* A thread enters pop(message, blocking): ret = 0, the Locker takes the
\* mutex.  The message is the caller's.
CallPop(t, blocking) ==
    /\ CanCall(t)
    /\ MutexFree(m_mutex)
    /\ m_mutex' = t
    /\ calls' = calls + 1
    /\ op' = [op EXCEPT ![t] = IF blocking THEN "pop_b" ELSE "pop_nb"]
    /\ ret' = [ret EXCEPT ![t] = 0]
    /\ pc' = [pc EXCEPT ![t] = "cs"]
    /\ returned' = NoReturn
    /\ UNCHANGED <<qvars, m_cond, arg>>

\* A thread enters cancel(): the Locker takes the mutex.
CallCancel(t) ==
    /\ CanCall(t)
    /\ MutexFree(m_mutex)
    /\ m_mutex' = t
    /\ calls' = calls + 1
    /\ op' = [op EXCEPT ![t] = "cancel"]
    /\ pc' = [pc EXCEPT ![t] = "cs"]
    /\ returned' = NoReturn
    /\ UNCHANGED <<qvars, m_cond, arg, ret, message>>

\* A thread enters size(): the Locker takes the mutex.
CallSize(t) ==
    /\ CanCall(t)
    /\ MutexFree(m_mutex)
    /\ m_mutex' = t
    /\ calls' = calls + 1
    /\ op' = [op EXCEPT ![t] = "size"]
    /\ pc' = [pc EXCEPT ![t] = "cs"]
    /\ returned' = NoReturn
    /\ UNCHANGED <<qvars, m_cond, arg, ret, message>>

\* is_cancelled(): one read of the volatile flag, without the mutex.
CallIsCancelled(t) ==
    /\ CanCall(t)
    /\ calls' = calls + 1
    /\ op' = [op EXCEPT ![t] = "out"]
    /\ returned' = ReturnOf(t, "is_cancelled", 0, m_cancelled)
    /\ UNCHANGED <<qvars, m_mutex, m_cond, pc, arg, ret, message>>

\* ----------------------------------------------------------------- steps

\* push under the mutex, then the Locker releases it and push returns.
PushCS(t) ==
    /\ pc[t] = "cs" /\ op[t] = "push" /\ m_mutex = t
    /\ LET size == Len(m_queue)
           r == PushRet(size, m_max_capacity)
       IN  /\ returned' = ReturnOf(t, "push", r, FALSE)
           /\ IF PushAccepts(size, m_max_capacity)
              THEN /\ m_queue' = QueuePushBack(m_queue, arg[t])
                   /\ pushed' = Append(pushed, arg[t])
                   /\ IF PushSignals(r)
                      THEN \E woken \in CondSignal(m_cond) :
                             /\ m_cond' = m_cond \ woken
                             /\ pc' = PcAfter(t, woken)
                      ELSE /\ m_cond' = m_cond
                           /\ pc' = PcAfter(t, {})
              ELSE /\ UNCHANGED <<m_queue, pushed, m_cond>>
                   /\ pc' = PcAfter(t, {})
    /\ m_mutex' = 0
    /\ LocalsGone(t)
    /\ UNCHANGED <<m_max_capacity, m_cancelled, popped, cancelDone, message,
                   calls>>

\* Variant of the non-blocking pop that waits on an empty queue.
PopNonBlockingSuspends(t) ==
    /\ pc[t] = "cs" /\ op[t] = "pop_nb" /\ m_mutex = t
    /\ LET r == Len(m_queue)
       IN  IF r > 0
           THEN /\ returned' = ReturnOf(t, "pop_nb", r, FALSE)
                /\ message' = [message EXCEPT ![t] = QueueFront(m_queue)]
                /\ m_queue' = QueuePopFront(m_queue)
                /\ popped' = Append(popped, QueueFront(m_queue))
                /\ pc' = PcAfter(t, {})
                /\ LocalsGone(t)
                /\ m_cond' = m_cond
           ELSE /\ m_cond' = m_cond \cup {t}
                /\ pc' = [pc EXCEPT ![t] = "wait"]
                /\ returned' = NoReturn
                /\ UNCHANGED <<op, arg, ret, message, m_queue, popped>>
    /\ m_mutex' = 0
    /\ UNCHANGED <<m_max_capacity, m_cancelled, pushed, cancelDone, calls>>

\* pop(message, false) under the mutex, then release and return.
PopNonBlockingCS(t) ==
    /\ pc[t] = "cs" /\ op[t] = "pop_nb" /\ m_mutex = t
    /\ LET r == Len(m_queue)
       IN  /\ returned' = ReturnOf(t, "pop_nb", r, FALSE)
           /\ IF r > 0
              THEN /\ message' = [message EXCEPT ![t] = QueueFront(m_queue)]
                   /\ m_queue' = QueuePopFront(m_queue)
                   /\ popped' = Append(popped, QueueFront(m_queue))
              ELSE UNCHANGED <<message, m_queue, popped>>
    /\ m_mutex' = 0
    /\ pc' = PcAfter(t, {})
    /\ LocalsGone(t)
    /\ UNCHANGED <<m_max_capacity, m_cancelled, pushed, cancelDone, m_cond,
                   calls>>

\* Variant of the blocking pop that looks at the queue before the flag.
PopBlockingQueueFirst(t) ==
    /\ pc[t] = "cs" /\ op[t] = "pop_b" /\ m_mutex = t
    /\ IF Len(m_queue) > 0
       THEN /\ returned' = ReturnOf(t, "pop_b", Len(m_queue), FALSE)
            /\ message' = [message EXCEPT ![t] = QueueFront(m_queue)]
            /\ m_queue' = QueuePopFront(m_queue)
            /\ popped' = Append(popped, QueueFront(m_queue))
            /\ pc' = PcAfter(t, {})
            /\ LocalsGone(t)
            /\ m_cond' = m_cond
       ELSE IF m_cancelled
       THEN /\ returned' = ReturnOf(t, "pop_b", ret[t], FALSE)
            /\ pc' = PcAfter(t, {})
            /\ LocalsGone(t)
            /\ UNCHANGED <<message, m_queue, popped, m_cond>>
       ELSE /\ m_cond' = m_cond \cup {t}
            /\ pc' = [pc EXCEPT ![t] = "wait"]
            /\ returned' = NoReturn
            /\ UNCHANGED <<op, arg, ret, message, m_queue, popped>>
    /\ m_mutex' = 0
    /\ UNCHANGED <<m_max_capacity, m_cancelled, pushed, cancelDone, calls>>

\* pop(message, true): one evaluation of the while loop under the mutex.
\* The loop test fails: the call returns ret.  The queue holds a message:
\* it is removed and the call returns.  Otherwise the thread suspends in
\* m_cond.wait, which releases the mutex.
PopBlockingCS(t) ==
    /\ pc[t] = "cs" /\ op[t] = "pop_b" /\ m_mutex = t
    /\ IF PopLoopTest(m_cancelled)
       THEN LET r == Len(m_queue)
            IN  IF r > 0
                THEN /\ returned' = ReturnOf(t, "pop_b", r, FALSE)
                     /\ message' = [message EXCEPT ![t] = QueueFront(m_queue)]
                     /\ m_queue' = QueuePopFront(m_queue)
                     /\ popped' = Append(popped, QueueFront(m_queue))
                     /\ pc' = PcAfter(t, {})
                     /\ LocalsGone(t)
                     /\ m_cond' = m_cond
                ELSE /\ ret' = [ret EXCEPT ![t] = r]
                     /\ m_cond' = m_cond \cup {t}
                     /\ pc' = [pc EXCEPT ![t] = "wait"]
                     /\ returned' = NoReturn
                     /\ UNCHANGED <<op, arg, message, m_queue, popped>>
       ELSE /\ returned' = ReturnOf(t, "pop_b", ret[t], FALSE)
            /\ pc' = PcAfter(t, {})
            /\ LocalsGone(t)
            /\ UNCHANGED <<message, m_queue, popped, m_cond>>
    /\ m_mutex' = 0
    /\ UNCHANGED <<m_max_capacity, m_cancelled, pushed, cancelDone, calls>>

\* A spurious wake-up of a thread suspended in m_cond.wait.
SpuriousWake(t) ==
    /\ pc[t] = "wait" /\ t \in m_cond
    /\ m_cond' = m_cond \ {t}
    /\ pc' = [pc EXCEPT ![t] = "relock"]
    /\ returned' = NoReturn
    /\ UNCHANGED <<qvars, tvars, m_mutex, calls>>

\* Variant of the return from wait that does not wait for the mutex.
RelockWithoutMutex(t) ==
    /\ pc[t] = "relock"
    /\ m_mutex' = t
    /\ pc' = [pc EXCEPT ![t] = "check"]
    /\ returned' = NoReturn
    /\ UNCHANGED <<qvars, tvars, m_cond, calls>>

\* m_cond.wait returns: the woken thread takes the mutex again.
Relock(t) ==
    /\ pc[t] = "relock"
    /\ MutexFree(m_mutex)
    /\ m_mutex' = t
    /\ pc' = [pc EXCEPT ![t] = "check"]
    /\ returned' = NoReturn
    /\ UNCHANGED <<qvars, tvars, m_cond, calls>>

\* The test after wait (line 93): break and return ret, or loop again.
PopAfterWait(t) ==
    /\ pc[t] = "check" /\ op[t] = "pop_b" /\ m_mutex = t
    /\ IF PopAfterWaitBreaks(m_cancelled)
       THEN /\ returned' = ReturnOf(t, "pop_b", ret[t], FALSE)
            /\ pc' = PcAfter(t, {})
            /\ LocalsGone(t)
            /\ m_mutex' = 0
       ELSE /\ pc' = [pc EXCEPT ![t] = "cs"]
            /\ returned' = NoReturn
            /\ UNCHANGED <<op, arg, ret, m_mutex>>
    /\ UNCHANGED <<qvars, m_cond, message, calls>>

\* Variant of cancel that inverts the flag.
CancelToggles(t) ==
    /\ pc[t] = "cs" /\ op[t] = "cancel" /\ m_mutex = t
    /\ m_cancelled' = ~m_cancelled
    /\ \E woken \in CancelWakes(m_cond) :
         /\ m_cond' = m_cond \ woken
         /\ pc' = PcAfter(t, woken)
    /\ m_mutex' = 0
    /\ cancelDone' = TRUE
    /\ returned' = ReturnOf(t, "cancel", 0, FALSE)
    /\ LocalsGone(t)
    /\ UNCHANGED <<m_max_capacity, m_queue, pushed, popped, message, calls>>

\* Variant of cancel that also empties the queue.
CancelDrains(t) ==
    /\ pc[t] = "cs" /\ op[t] = "cancel" /\ m_mutex = t
    /\ m_cancelled' = CancelFlag
    /\ m_queue' = <<>>
    /\ \E woken \in CancelWakes(m_cond) :
         /\ m_cond' = m_cond \ woken
         /\ pc' = PcAfter(t, woken)
    /\ m_mutex' = 0
    /\ cancelDone' = TRUE
    /\ returned' = ReturnOf(t, "cancel", 0, FALSE)
    /\ LocalsGone(t)
    /\ UNCHANGED <<m_max_capacity, pushed, popped, message, calls>>

\* cancel() under the mutex, then release and return.
CancelCS(t) ==
    /\ pc[t] = "cs" /\ op[t] = "cancel" /\ m_mutex = t
    /\ m_cancelled' = CancelFlag
    /\ \E woken \in CancelWakes(m_cond) :
         /\ m_cond' = m_cond \ woken
         /\ pc' = PcAfter(t, woken)
    /\ m_mutex' = 0
    /\ cancelDone' = TRUE
    /\ returned' = ReturnOf(t, "cancel", 0, FALSE)
    /\ LocalsGone(t)
    /\ UNCHANGED <<m_max_capacity, m_queue, pushed, popped, message, calls>>

\* size() under the mutex, then release and return.
SizeCS(t) ==
    /\ pc[t] = "cs" /\ op[t] = "size" /\ m_mutex = t
    /\ returned' = ReturnOf(t, "size", Len(m_queue), FALSE)
    /\ m_mutex' = 0
    /\ pc' = PcAfter(t, {})
    /\ LocalsGone(t)
    /\ UNCHANGED <<qvars, m_cond, message, calls>>

\* ------------------------------------------------------- specifications

\* The steps a thread takes by itself once it is inside a call.
Step(t) ==
    \/ PushCS(t)
    \/ PopNonBlockingCS(t)
    \/ PopBlockingCS(t)
    \/ Relock(t)
    \/ PopAfterWait(t)
    \/ CancelCS(t)
    \/ SizeCS(t)

\* A program that calls the queue directly: the message handed to pop is
\* a variable of the caller, and there is no wrapper.
Next ==
    \/ \E t \in Threads : CallPush(t) /\ UNCHANGED wvars
    \/ \E t \in Threads, b \in BOOLEAN :
          CallPop(t, b) /\ UNCHANGED <<message, wvars>>
    \/ \E t \in Threads : CallCancel(t) /\ UNCHANGED wvars
    \/ \E t \in Threads : CallSize(t) /\ UNCHANGED wvars
    \/ \E t \in Threads : CallIsCancelled(t) /\ UNCHANGED wvars
    \/ \E t \in Threads : PushCS(t) /\ UNCHANGED wvars
    \/ \E t \in Threads : PopNonBlockingCS(t) /\ UNCHANGED wvars
    \/ \E t \in Threads : PopBlockingCS(t) /\ UNCHANGED wvars
    \/ \E t \in Threads : SpuriousWake(t) /\ UNCHANGED wvars
    \/ \E t \in Threads : Relock(t) /\ UNCHANGED wvars
    \/ \E t \in Threads : PopAfterWait(t) /\ UNCHANGED wvars
    \/ \E t \in Threads : CancelCS(t) /\ UNCHANGED wvars
    \/ \E t \in Threads : SizeCS(t) /\ UNCHANGED wvars

Spec == Init /\ [][Next]_vars

\* Fair scheduling: a thread inside a call that can take a step does so.
\* Calls and spurious wake-ups are not forced.
FairSpec ==
    Spec /\ \A t \in Threads : WF_vars(Step(t) /\ UNCHANGED wvars)

\* ------------------------------------------------- the typed wrapper

\* The dynamic type of the objects built by MessageQueueT<M>::push.
MessageImplM == "MessageImpl<M>"

\* Variant of the constructor that builds an object of another class.
MessageImplOther(v) == [type |-> "MessageImpl<P>", m_payload |-> v]

\* MessageImpl<M>::MessageImpl(payload): m_payload(payload).
MessageImpl(v) == [type |-> MessageImplM, m_payload |-> v]

\* std::dynamic_pointer_cast<MessageImpl<M>>: the pointer itself when the
\* object is a MessageImpl<M>, the null pointer otherwise.
DynamicCast(m) ==
    IF m = NoMsg THEN NoMsg
    ELSE IF heap[m].type = MessageImplM THEN m ELSE NoMsg

\* MessageQueueT::pop, lines 300 and 305: the two asserts.
PopAsserts(m) == m # NoMsg /\ DynamicCast(m) = m

\* Variant of pop that copies a default constructed payload.
PayloadDefault(m) == NoPayload

\* MessageQueueT::pop, line 307: the payload copied to dst_message.
PayloadOf(m) == heap[m].m_payload

\* Variant of the wrapper that reports one message less.
ForwardLess(r) == [r EXCEPT !.ret = IF r.ret > 0 THEN r.ret - 1 ELSE 0]

\* Variant of the test that takes every result for a success.
PopSucceededAlways(r) == TRUE

\* MessageQueueT::pop, line 298: if (ret > 0).
PopSucceeded(r) == r > 0

\* The wrapper returns the result of m_impl unchanged.
Forward(r) == r

\* The last shared pointer to message m goes away: the object is destroyed.
Destroyed(m) == [heap EXCEPT ![m] = NoObject]

\* A step of m_impl inside a wrapper call that does not return.
WrapperWaits ==
    /\ wreturned' = NoReturn
    /\ UNCHANGED <<heap, warg, dst, sent, assert_failed>>

\* m_impl returned to cancel, is_cancelled or size of the wrapper.
WrapperForwards ==
    /\ wreturned' = Forward(returned')
    /\ UNCHANGED <<heap, warg, dst, sent, assert_failed>>

\* MessageQueueT::pop after m_impl->pop: on success the asserts, the cast
\* and the copy of the payload; abstract_message goes out of scope.  A
\* failed assert aborts the program.
WrapperPop(t) ==
    IF returned'.thread # t
    THEN WrapperWaits
    ELSE IF PopSucceeded(returned'.ret)
    THEN IF PopAsserts(message'[t])
         THEN /\ dst' = [dst EXCEPT ![t] = PayloadOf(message'[t])]
              /\ heap' = Destroyed(message'[t])
              /\ wreturned' = Forward(returned')
              /\ UNCHANGED <<warg, sent, assert_failed>>
         ELSE /\ assert_failed' = TRUE
              /\ wreturned' = NoReturn
              /\ UNCHANGED <<heap, warg, dst, sent>>
    ELSE /\ wreturned' = Forward(returned')
         /\ UNCHANGED <<heap, warg, dst, sent, assert_failed>>

\* MessageQueueT::push(message): new_message(new MessageImpl<M>(message)),
\* then m_impl->push(new_message) is entered.
TPushCall(t, v) ==
    /\ ~assert_failed
    /\ CallPush(t)
    /\ warg' = [warg EXCEPT ![t] = v]
    /\ heap' = [heap EXCEPT ![arg'[t]] = MessageImpl(v)]
    /\ wreturned' = NoReturn
    /\ UNCHANGED <<dst, sent, assert_failed>>

\* m_impl->push returns and the wrapper returns its result; new_message
\* goes out of scope, which destroys a message the queue did not take.
TPushCS(t) ==
    /\ ~assert_failed
    /\ PushCS(t)
    /\ wreturned' = Forward(returned')
    /\ IF returned'.ret > 0
       THEN /\ sent' = Append(sent, warg[t])
            /\ heap' = heap
       ELSE /\ sent' = sent
            /\ heap' = Destroyed(arg[t])
    /\ warg' = [warg EXCEPT ![t] = NoPayload]
    /\ UNCHANGED <<dst, assert_failed>>

\* MessageQueueT::pop(dst_message, blocking): abstract_message is a null
\* pointer, then m_impl->pop(abstract_message, blocking) is entered.
TPopCall(t, blocking) ==
    /\ ~assert_failed
    /\ CallPop(t, blocking)
    /\ message' = [message EXCEPT ![t] = NoMsg]
    /\ WrapperWaits

TPopNonBlockingCS(t) ==
    /\ ~assert_failed
    /\ PopNonBlockingCS(t)
    /\ WrapperPop(t)

TPopBlockingCS(t) ==
    /\ ~assert_failed
    /\ PopBlockingCS(t)
    /\ WrapperPop(t)

TPopAfterWait(t) ==
    /\ ~assert_failed
    /\ PopAfterWait(t)
    /\ WrapperPop(t)

TSpuriousWake(t) == ~assert_failed /\ SpuriousWake(t) /\ WrapperWaits

TRelock(t) == ~assert_failed /\ Relock(t) /\ WrapperWaits

\* MessageQueueT::cancel(): m_impl->cancel().
TCancelCall(t) == ~assert_failed /\ CallCancel(t) /\ WrapperWaits

TCancelCS(t) == ~assert_failed /\ CancelCS(t) /\ WrapperForwards

\* MessageQueueT::size(): return m_impl->size().
TSizeCall(t) == ~assert_failed /\ CallSize(t) /\ WrapperWaits

TSizeCS(t) == ~assert_failed /\ SizeCS(t) /\ WrapperForwards

\* MessageQueueT::is_cancelled(): return m_impl->is_cancelled().
TIsCancelled(t) == ~assert_failed /\ CallIsCancelled(t) /\ WrapperForwards

\* A program that calls the queue through MessageQueueT<M> only: m_impl is
\* private to the wrapper.
TypedNext ==
    \/ \E t \in Threads, v \in Payloads : TPushCall(t, v)
    \/ \E t \in Threads, b \in BOOLEAN : TPopCall(t, b)
    \/ \E t \in Threads : TCancelCall(t)
    \/ \E t \in Threads : TSizeCall(t)
    \/ \E t \in Threads : TIsCancelled(t)
    \/ \E t \in Threads : TPushCS(t)
    \/ \E t \in Threads : TPopNonBlockingCS(t)
    \/ \E t \in Threads : TPopBlockingCS(t)
    \/ \E t \in Threads : TSpuriousWake(t)
    \/ \E t \in Threads : TRelock(t)
    \/ \E t \in Threads : TPopAfterWait(t)
    \/ \E t \in Threads : TCancelCS(t)
    \/ \E t \in Threads : TSizeCS(t)

TypedSpec == Init /\ [][TypedNext]_vars

\* ------------------------------------------------------------- properties

\* The thread is inside pop(blocking = true).
InPopB(t) == op[t] = "pop_b" /\ pc[t] # "idle"

\* The thread leaves the section it executes under the mutex.
LeavesCS(t) == pc[t] = "cs" /\ pc'[t] # "cs"

\* The thread leaves the test it makes after m_cond.wait returned.
LeavesCheck(t) == pc[t] = "check" /\ pc'[t] # "check"

\* The step is the return of the call of thread t with value r.
ReturnsWith(t, r) ==
    pc'[t] = "idle" /\ returned'.thread = t /\ returned'.ret = r

\* C1: the messages removed by successful pops, in the order of removal under
\* the lock, are a prefix of the messages appended by successful pushes, in
\* the order of insertion.
FifoOrder == IsPrefix(popped, pushed)

FifoOrderWitness == Len(popped) >= 2

\* C2: push returns 0 and leaves the queue unchanged if and only if the
\* stored count equals max_capacity when push holds the lock; otherwise it
\* appends the message at the tail and returns the previous count plus one;
\* with max_capacity = 0 every push returns 0.
PushContract ==
    [][\A t \in Threads :
         (op[t] = "push" /\ LeavesCS(t)) =>
            /\ pc'[t] = "idle"
            /\ returned'.thread = t /\ returned'.op = "push"
            /\ (returned'.ret = 0) <=> (Len(m_queue) = m_max_capacity)
            /\ (returned'.ret = 0) => (m_queue' = m_queue)
            /\ (returned'.ret # 0) =>
                  /\ m_queue' = m_queue \o <<arg[t]>>
                  /\ returned'.ret = Len(m_queue) + 1
                  /\ returned'.ret >= 1
            /\ (m_max_capacity = 0) => (returned'.ret = 0)]_vars

PushContractWitness ==
    /\ returned.op = "push" /\ returned.ret = 0
    /\ m_max_capacity >= 1 /\ Len(m_queue) = m_max_capacity
    /\ Len(pushed) >= 1

\* C3: pop(blocking = false) returns 0 if and only if the queue is empty when
\* the call holds the lock; otherwise it returns the count before removal,
\* hands back the head and removes exactly that element; it never suspends.
PopNonBlockingContract ==
    [][\A t \in Threads :
         /\ (op[t] = "pop_nb" /\ LeavesCS(t)) =>
               /\ pc'[t] = "idle"
               /\ returned'.thread = t /\ returned'.op = "pop_nb"
               /\ (returned'.ret = 0) <=> (m_queue = <<>>)
               /\ (returned'.ret = 0) => (m_queue' = m_queue)
               /\ (returned'.ret # 0) =>
                     /\ returned'.ret = Len(m_queue)
                     /\ returned'.ret >= 1
                     /\ message'[t] = m_queue[1]
                     /\ m_queue = <<m_queue[1]>> \o m_queue'
         /\ (op'[t] = "pop_nb") => (pc'[t] = "cs" /\ t \notin m_cond')
      ]_vars

PopNonBlockingWitness ==
    returned.op = "pop_nb" /\ returned.ret = 2 /\ Len(m_queue) = 1

\* C4: under fair scheduling, once a cancel() has returned, every blocking pop
\* in progress (suspended in the wait or waiting for the mutex) or started
\* later eventually returns.
CancelReleasesAll ==
    \A t \in Threads : (cancelDone /\ InPopB(t)) ~> ~InPopB(t)

CancelReleasesAllWitness ==
    /\ returned.op = "cancel"
    /\ Cardinality({t \in Threads : op[t] = "pop_b" /\ pc[t] = "relock"}) >= 2

\* C5: once the flag is set, a blocking pop that has not removed a message
\* returns 0 and no message: a call woken from the wait returns 0, and a call
\* that starts on a cancelled queue returns 0 without suspending.
CancelledPopFails ==
    [][\A t \in Threads :
         (op[t] = "pop_b" /\ m_cancelled) =>
            /\ (pc[t] \in {"cs", "check"} /\ pc'[t] # pc[t]) =>
                  /\ ReturnsWith(t, 0)
                  /\ message'[t] = message[t]
                  /\ m_queue' = m_queue
            /\ (pc'[t] = "wait") => (pc[t] = "wait")
            /\ pc[t] # "wait"]_vars

CancelledPopFailsWitness ==
    /\ returned.op = "pop_b" /\ returned.ret = 0 /\ m_cancelled
    /\ message[returned.thread] = NoMsg

\* C6, as stated: whenever the queue is non-empty when the blocking pop
\* evaluates its loop under the lock, it removes the head and returns it with
\* the count before removal; it returns 0 only when the queue is empty.
QueueTestedBeforeFlag ==
    [][\A t \in Threads :
         /\ (op[t] = "pop_b" /\ LeavesCS(t) /\ m_queue # <<>>) =>
               /\ ReturnsWith(t, Len(m_queue))
               /\ message'[t] = m_queue[1]
               /\ m_queue' = Tail(m_queue)
         /\ (op[t] = "pop_b" /\ LeavesCheck(t) /\ m_queue # <<>>) =>
               (pc'[t] = "idle" => returned'.ret # 0)]_vars

\* C6, amended: the blocking pop tests the flag before the queue.  When it
\* evaluates its loop under the lock with the flag set it returns 0 and
\* removes nothing, whether or not the queue is empty; with the flag unset and
\* the queue non-empty it removes the head and returns it with the count
\* before removal; with the flag unset and the queue empty it suspends.
FlagTestedBeforeQueue ==
    [][\A t \in Threads :
         /\ (op[t] = "pop_b" /\ LeavesCS(t)) =>
               IF m_cancelled
               THEN /\ ReturnsWith(t, 0)
                    /\ message'[t] = message[t]
                    /\ m_queue' = m_queue
               ELSE IF m_queue # <<>>
               THEN /\ ReturnsWith(t, Len(m_queue))
                    /\ message'[t] = m_queue[1]
                    /\ m_queue' = Tail(m_queue)
               ELSE /\ pc'[t] = "wait"
                    /\ m_queue' = m_queue
         /\ (op[t] = "pop_b" /\ LeavesCheck(t)) =>
               IF m_cancelled
               THEN /\ ReturnsWith(t, 0)
                    /\ message'[t] = message[t]
                    /\ m_queue' = m_queue
               ELSE /\ pc'[t] = "cs"
                    /\ m_queue' = m_queue]_vars

FlagTestedBeforeQueueWitness ==
    /\ returned.op = "pop_b" /\ returned.ret = 0
    /\ m_cancelled /\ m_queue # <<>>

\* C7: without cancel and under fair scheduling, no thread stays suspended in
\* the wait forever while the queue remains non-empty.
NoLostWakeup ==
    \A t \in Threads :
        (pc[t] = "wait" /\ m_queue # <<>> /\ ~m_cancelled)
           ~> (pc[t] # "wait" \/ m_queue = <<>> \/ m_cancelled)

\* The operations that change the queue or the flag.
Mutating == {"push", "pop_nb", "pop_b", "cancel"}

\* Thread t is the only thread inside pop, suspended on an empty queue that
\* is not cancelled, and thread p is about to insert its message.
OneBlockedOnePushing(t, p) ==
    /\ op[t] = "pop_b" /\ pc[t] = "wait"
    /\ op[p] = "push" /\ pc[p] = "cs"
    /\ m_queue = <<>> /\ ~m_cancelled /\ m_max_capacity >= 1
    /\ \A u \in Threads \ {t, p} : pc[u] = "idle"

\* The blocked pop has returned 1 with the message pushed last and the queue
\* is empty again.
BlockedPopGotIt(t) ==
    /\ returned = ReturnOf(t, "pop_b", 1, FALSE)
    /\ m_queue = <<>>
    /\ pushed # <<>> /\ message[t] = pushed[Len(pushed)]
    /\ popped = pushed

\* Some thread other than t is inside a pop, push or cancel while a message
\* is stored: a call started after the push of p.
OtherCallStarted(t) ==
    \E u \in Threads \ {t} :
        /\ pc[u] # "idle"
        /\ op[u] \in Mutating
        /\ m_queue # <<>>

\* C8: if exactly one thread is blocked in pop(blocking = true) on an empty
\* queue that is not cancelled and another thread pushes x, then, unless a
\* further pop, push or cancel is started, under fair scheduling the blocked
\* call eventually returns 1 with x and the queue is empty again.
SingleConsumerHandOff ==
    \A t \in Threads :
        (\E p \in Threads \ {t} : OneBlockedOnePushing(t, p))
           ~> (BlockedPopGotIt(t) \/ OtherCallStarted(t))

SingleConsumerHandOffWitness ==
    \E t \in Threads :
        /\ op[t] = "pop_b" /\ pc[t] = "relock"
        /\ returned.op = "push" /\ returned.ret = 1
        /\ Len(m_queue) = 1 /\ ~m_cancelled
        /\ \A u \in Threads \ {t} : pc[u] = "idle"

\* C9: the flag is false at construction, becomes true only through cancel(),
\* never goes back to false, is true once a cancel() has returned, and every
\* is_cancelled() made after a cancel() returned yields true.
CancelIrreversible ==
    /\ ~m_cancelled
    /\ [][/\ m_cancelled => m_cancelled'
          /\ (~m_cancelled /\ m_cancelled') =>
                \E t \in Threads : op[t] = "cancel" /\ LeavesCS(t)
          /\ cancelDone' => m_cancelled'
          /\ (cancelDone /\ calls' # calls
                /\ returned'.op = "is_cancelled") => (returned'.flag = TRUE)
         ]_vars

CancelIrreversibleWitness ==
    cancelDone /\ returned.op = "is_cancelled" /\ returned.flag

\* C10: in every reachable state the number of stored messages is at least 0
\* and at most max_capacity.
CapacityBound == 0 <= Len(m_queue) /\ Len(m_queue) <= m_max_capacity

CapacityBoundWitness ==
    /\ m_max_capacity > 0 /\ Len(m_queue) = m_max_capacity
    /\ returned.op = "push" /\ returned.ret = 0

\* The calls that take the mutex and never reach m_cond.wait.
NonSuspending == {"push", "pop_nb", "cancel", "size"}

\* C11: push, pop(blocking = false), cancel and size never suspend on the
\* condition variable and return with their next step, in every state of the
\* queue; is_cancelled returns in the step that calls it; the mutex is always
\* released again; a thread suspends only in pop(blocking = true), when it
\* finds the queue empty and the flag unset.
NonSuspendingCallsReturn ==
    /\ [](\A t \in Threads :
            (t \in m_cond \/ pc[t] \in {"wait", "relock", "check"})
               => op[t] = "pop_b")
    /\ [][\A t \in Threads :
            /\ (op[t] \in NonSuspending /\ pc'[t] # pc[t]) =>
                  (pc[t] = "cs" /\ pc'[t] = "idle" /\ returned'.thread = t)
            /\ (returned'.op = "is_cancelled" /\ returned'.thread = t
                  /\ calls' # calls) => (pc[t] = "idle" /\ pc'[t] = "idle")
            /\ (pc'[t] = "wait" /\ pc[t] # "wait") =>
                  (op[t] = "pop_b" /\ m_queue = <<>> /\ ~m_cancelled)]_vars
    /\ \A t \in Threads :
          (op[t] \in NonSuspending /\ pc[t] = "cs") ~> (pc[t] = "idle")
    /\ (m_mutex # 0) ~> (m_mutex = 0)

NonSuspendingCallsReturnWitness ==
    /\ returned.op \in NonSuspending
    /\ m_cond # {}
    /\ \E t \in m_cond : op[t] = "pop_b" /\ pc[t] = "wait"

\* The thread is inside pop.
InPop(t) == op[t] \in {"pop_b", "pop_nb"}

\* C12: no step of a pop that is not its successful return changes the
\* caller's message or the destination value of MessageQueueT::pop, and a pop
\* that returns 0 (the non-blocking pop on an empty queue, the blocking pop
\* released by cancellation) returns 0 from the wrapper too and leaves the
\* stored messages as they were.
FailedPopTouchesNothing ==
    [][\A t \in Threads :
         InPop(t) =>
            /\ ~(returned'.thread = t /\ returned'.ret > 0) =>
                  (message'[t] = message[t] /\ dst'[t] = dst[t])
            /\ (returned'.thread = t /\ returned'.ret = 0) =>
                  /\ m_queue' = m_queue
                  /\ pushed' = pushed /\ popped' = popped
                  /\ wreturned' = ReturnOf(t, op[t], 0, FALSE)]_vars

FailedPopTouchesNothingWitness ==
    /\ wreturned.op \in {"pop_b", "pop_nb"} /\ wreturned.ret = 0
    /\ dst[wreturned.thread] \in Payloads

\* C13: cancel() changes only the flag and the set of suspended threads: the
\* stored messages, their order, the histories and every caller's message
\* are the same before and after; the threads it wakes are still inside pop,
\* waiting for the mutex, when cancel() returns.
CancelFrame ==
    [][\A t \in Threads :
         (op[t] = "cancel" /\ LeavesCS(t)) =>
            /\ m_queue' = m_queue
            /\ m_max_capacity' = m_max_capacity
            /\ pushed' = pushed /\ popped' = popped
            /\ message' = message
            /\ m_cancelled'
            /\ m_cond' = {}
            /\ pc'[t] = "idle"
            /\ returned' = ReturnOf(t, "cancel", 0, FALSE)
            /\ \A u \in Threads \ {t} :
                  /\ op'[u] = op[u]
                  /\ pc'[u] = IF u \in m_cond THEN "relock" ELSE pc[u]]_vars

CancelFrameWitness ==
    /\ returned.op = "cancel"
    /\ m_queue # <<>>
    /\ \E u \in Threads : op[u] = "pop_b" /\ pc[u] = "relock"

\* C14: a cancel() on a queue that is already cancelled changes nothing that
\* a later operation reads: entering it takes the mutex only, and its section
\* leaves the flag set, the stored messages, the histories, the (empty) set of
\* suspended threads and every other thread as they were, so the state after
\* it is the state after the first cancel().
CancelIdempotent ==
    [][\A t \in Threads :
         /\ (m_cancelled /\ op'[t] = "cancel" /\ pc[t] = "idle") =>
               /\ qvars' = qvars
               /\ m_cond' = m_cond
               /\ message' = message
               /\ \A u \in Threads \ {t} : pc'[u] = pc[u] /\ op'[u] = op[u]
         /\ (m_cancelled /\ op[t] = "cancel" /\ LeavesCS(t)) =>
               /\ qvars' = qvars
               /\ m_cond = {} /\ m_cond' = {}
               /\ m_mutex' = 0
               /\ message' = message
               /\ pc'[t] = "idle"
               /\ \A u \in Threads \ {t} :
                     /\ pc'[u] = pc[u] /\ op'[u] = op[u]
                     /\ arg'[u] = arg[u] /\ ret'[u] = ret[u]]_vars

\* A second cancel() is inside its section after the first one returned.
CancelIdempotentWitness ==
    /\ cancelDone /\ m_cancelled
    /\ \E t \in Threads : op[t] = "cancel" /\ pc[t] = "cs"
    /\ \E u \in Threads : op[u] = "pop_b" /\ pc[u] = "relock"

\* C15: round trip of the typed wrapper.  On a queue that is not cancelled
\* and holds exactly the message of the last successful push(v) (the queue
\* was empty before it and nothing was removed since), the next pop of
\* MessageQueueT returns a non-zero count, 1, and yields a value equal to v.
TypedRoundTrip ==
    [][\A t \in Threads :
         (/\ InPop(t) /\ LeavesCS(t)
          /\ ~m_cancelled
          /\ Len(m_queue) = 1
          /\ Len(sent) = Len(popped) + 1) =>
            /\ wreturned' = ReturnOf(t, op[t], 1, FALSE)
            /\ dst'[t] = sent[Len(sent)]
            /\ m_queue' = <<>>
            /\ ~assert_failed']_vars

\* push(2) on the empty queue was followed by a pop that returned 1 and
\* wrote 2 over the default value of its destination.
TypedRoundTripWitness ==
    /\ wreturned.op \in {"pop_b", "pop_nb"} /\ wreturned.ret = 1
    /\ sent = <<2>> /\ Len(popped) = 1
    /\ dst[wreturned.thread] = 2

\* The threads woken by a step: the threads that left m_cond.
Woken == m_cond \ m_cond'

\* C16: wake-up discipline.  A successful push into an empty queue wakes
\* exactly one suspended thread if there is one, a push into a non-empty
\* queue and a rejected push wake none, a pop wakes none, and cancel() wakes
\* every suspended thread; a woken thread goes on to take the mutex again.
WakeUpDiscipline ==
    [][\A t \in Threads :
         /\ (op[t] = "push" /\ LeavesCS(t)) =>
               /\ IF returned'.ret = 1 /\ m_cond # {}
                  THEN Cardinality(Woken) = 1
                  ELSE Woken = {}
               /\ (m_queue # <<>> \/ returned'.ret = 0) => m_cond' = m_cond
         /\ (InPop(t) /\ (LeavesCS(t) \/ LeavesCheck(t))) =>
               (Woken = {} /\ m_cond \subseteq m_cond')
         /\ (op[t] = "cancel" /\ LeavesCS(t)) =>
               (Woken = m_cond /\ m_cond' = {})
         /\ \A u \in Woken : pc[u] = "wait" /\ pc'[u] = "relock"]_vars

WakeUpDisciplineWitness ==
    /\ returned.op = "push" /\ returned.ret = 1
    /\ Cardinality(m_cond) = 1
    /\ Cardinality({u \in Threads : pc[u] = "relock"}) = 1

\* C17: pop(blocking = true) returns 0 only if the flag is set when it
\* returns.  A thread that comes back from the wait with the flag unset keeps
\* the mutex and evaluates the loop again, and if it finds the queue empty and
\* the flag unset there it suspends again instead of returning.
BlockingPopFailsOnlyWhenCancelled ==
    [][\A t \in Threads :
         op[t] = "pop_b" =>
            /\ (returned'.thread = t /\ returned'.ret = 0) =>
                  (m_cancelled /\ m_cancelled')
            /\ (LeavesCheck(t) /\ ~m_cancelled) =>
                  (pc'[t] = "cs" /\ m_mutex' = t /\ returned' = NoReturn)
            /\ (LeavesCS(t) /\ ~m_cancelled /\ m_queue = <<>>) =>
                  /\ pc'[t] = "wait" /\ t \in m_cond'
                  /\ m_mutex' = 0
                  /\ returned' = NoReturn]_vars

\* Thread 1 was suspended in pop, the only push signalled it, another pop
\* removed the message first, and thread 1 is suspended again.
BlockingPopFailsOnlyWhenCancelledWitness ==
    /\ op[1] = "pop_b" /\ pc[1] = "wait" /\ 1 \in m_cond
    /\ calls = 3
    /\ pushed = <<2>> /\ popped = <<2>>
    /\ ~m_cancelled

\* The threads inside a section that reads or changes the stored messages
\* or the flag under the mutex.
InSection == {t \in Threads : pc[t] \in {"cs", "check"}}

\* C18: lock discipline.  At most one thread is inside a section, and it is
\* the owner of the mutex; the stored messages and the flag change only in
\* a step of the owner; a thread gives the mutex up when it suspends, does
\* not own it while it is suspended or woken, and owns it again before it
\* tests the flag or the queue.
LockDiscipline ==
    /\ [](/\ Cardinality(InSection) <= 1
          /\ \A t \in Threads : (t \in InSection) <=> (m_mutex = t)
          /\ \A t \in Threads :
                pc[t] \in {"wait", "relock", "idle"} => m_mutex # t
          /\ \A t \in m_cond : pc[t] = "wait")
    /\ [][/\ (m_queue' # m_queue \/ m_cancelled' # m_cancelled) =>
                \E t \in InSection :
                    m_mutex = t /\ pc[t] = "cs" /\ pc'[t] = "idle"
          /\ \A t \in Threads :
                /\ (pc'[t] = "wait" /\ pc[t] # "wait") =>
                      (m_mutex = t /\ m_mutex' = 0)
                /\ (pc[t] = "relock" /\ pc'[t] # "relock") =>
                      (m_mutex = 0 /\ m_mutex' = t /\ pc'[t] = "check")
                /\ (pc'[t] = "cs" /\ pc[t] # "cs") =>
                      m_mutex' = t]_vars

\* A woken thread is waiting for the mutex while another thread is inside
\* its section.
LockDisciplineWitness ==
    /\ \E t \in Threads : pc[t] = "relock"
    /\ \E u \in Threads : pc[u] = "cs" /\ m_mutex = u
    /\ \E w \in Threads : pc[w] = "wait"

\* The elements of a sequence.
Range(s) == {s[i] : i \in 1..Len(s)}

\* Message m is a live MessageImpl<M> built by push of this wrapper.
IsTypedMessage(m) ==
    /\ m # NoMsg
    /\ heap[m].type = MessageImplM
    /\ heap[m].m_payload \in Payloads
    /\ m \in Range(pushed)

\* C19: the asserts of MessageQueueT::pop never fail.  Every stored message
\* and every message a pop removes is a non-null MessageImpl<M> that push of
\* the same wrapper inserted, the cast gives back the same pointer, and the
\* payload is the one that push was given.
TypeRecoverySucceeds ==
    /\ [](~assert_failed)
    /\ [](\A i \in 1..Len(m_queue) : IsTypedMessage(m_queue[i]))
    /\ [](Len(sent) = Len(pushed))
    /\ [][\A t \in Threads :
            (InPop(t) /\ returned'.thread = t /\ returned'.ret > 0) =>
               /\ IsTypedMessage(message'[t])
               /\ DynamicCast(message'[t]) = message'[t]
               /\ PopAsserts(message'[t])
               /\ \E i \in 1..Len(pushed) :
                     /\ pushed[i] = message'[t]
                     /\ sent[i] = heap[message'[t]].m_payload
                     /\ dst'[t] = sent[i]
               /\ wreturned'.thread = t]_vars

TypeRecoverySucceedsWitness ==
    /\ wreturned.op \in {"pop_b", "pop_nb"} /\ wreturned.ret = 2
    /\ dst[wreturned.thread] \in Payloads
    /\ ~assert_failed

\* A step of the queue m_impl, whoever calls it.
QueueNext ==
    \/ \E t \in Threads : CallPush(t)
    \/ \E t \in Threads, b \in BOOLEAN : CallPop(t, b)
    \/ \E t \in Threads : CallCancel(t)
    \/ \E t \in Threads : CallSize(t)
    \/ \E t \in Threads : CallIsCancelled(t)
    \/ \E t \in Threads : PushCS(t)
    \/ \E t \in Threads : PopNonBlockingCS(t)
    \/ \E t \in Threads : PopBlockingCS(t)
    \/ \E t \in Threads : SpuriousWake(t)
    \/ \E t \in Threads : Relock(t)
    \/ \E t \in Threads : PopAfterWait(t)
    \/ \E t \in Threads : CancelCS(t)
    \/ \E t \in Threads : SizeCS(t)

\* Whatever step a thread can take on the untyped queue, it can take through
\* the wrapper.
WrapperNeverRefuses ==
    \A t \in Threads :
        /\ (ENABLED (CallPush(t) /\ UNCHANGED wvars)) =>
              ENABLED (\E v \in Payloads : TPushCall(t, v))
        /\ \A b \in BOOLEAN :
              (ENABLED (CallPop(t, b) /\ UNCHANGED <<message, wvars>>)) =>
                 ENABLED TPopCall(t, b)
        /\ (ENABLED (CallCancel(t) /\ UNCHANGED wvars)) =>
              ENABLED TCancelCall(t)
        /\ (ENABLED (CallSize(t) /\ UNCHANGED wvars)) =>
              ENABLED TSizeCall(t)
        /\ (ENABLED (CallIsCancelled(t) /\ UNCHANGED wvars)) =>
              ENABLED TIsCancelled(t)
        /\ (ENABLED (PushCS(t) /\ UNCHANGED wvars)) => ENABLED TPushCS(t)
        /\ (ENABLED (PopNonBlockingCS(t) /\ UNCHANGED wvars)) =>
              ENABLED TPopNonBlockingCS(t)
        /\ (ENABLED (PopBlockingCS(t) /\ UNCHANGED wvars)) =>
              ENABLED TPopBlockingCS(t)
        /\ (ENABLED (SpuriousWake(t) /\ UNCHANGED wvars)) =>
              ENABLED TSpuriousWake(t)
        /\ (ENABLED (Relock(t) /\ UNCHANGED wvars)) => ENABLED TRelock(t)
        /\ (ENABLED (PopAfterWait(t) /\ UNCHANGED wvars)) =>
              ENABLED TPopAfterWait(t)
        /\ (ENABLED (CancelCS(t) /\ UNCHANGED wvars)) => ENABLED TCancelCS(t)
        /\ (ENABLED (SizeCS(t) /\ UNCHANGED wvars)) => ENABLED TSizeCS(t)

\* C20: the typed wrapper adds no state and no failure of its own.  Every
\* step of a program that uses MessageQueueT<M> is a step of the untyped
\* queue on the queue's own variables (same effect of push, pop and cancel),
\* every call of the wrapper returns exactly what the untyped queue returned
\* (the counts of push and pop, the results of size and is_cancelled), no
\* assert of the wrapper fails, and the wrapper refuses no step that the
\* untyped queue can take.
WrapperIsTransparent ==
    /\ [](wreturned = returned)
    /\ [](~assert_failed)
    /\ [][QueueNext]_ivars
    /\ []WrapperNeverRefuses

WrapperIsTransparentWitness ==
    /\ wreturned.op = "push" /\ wreturned.ret = 2
    /\ returned = wreturned
    /\ Len(m_queue) = 2 /\ Len(sent) = 2

\* What push and the non-blocking pop do, as a function of the stored
\* messages, the capacity and the argument alone.
PushCount(q, cap) == IF Len(q) < cap THEN Len(q) + 1 ELSE 0
PushQueue(q, cap, m) == IF Len(q) < cap THEN q \o <<m>> ELSE q
PopCount(q) == Len(q)
PopQueue(q) == IF q = <<>> THEN q ELSE SubSeq(q, 2, Len(q))

\* C21: the flag influences only the blocking pop.  Whatever the value of the
\* flag, push returns and stores what the stored messages, the capacity and
\* its argument determine, the non-blocking pop returns and removes what the
\* stored messages determine, and neither changes the flag: on a cancelled
\* queue they act exactly as on an active queue with the same contents.
FlagInfluencesOnlyBlockingPop ==
    [][\A t \in Threads :
         /\ (op[t] = "push" /\ LeavesCS(t)) =>
               /\ returned' =
                    ReturnOf(t, "push", PushCount(m_queue, m_max_capacity),
                             FALSE)
               /\ m_queue' = PushQueue(m_queue, m_max_capacity, arg[t])
               /\ popped' = popped /\ message' = message
               /\ m_cancelled' = m_cancelled
         /\ (op[t] = "pop_nb" /\ LeavesCS(t)) =>
               /\ returned' = ReturnOf(t, "pop_nb", PopCount(m_queue), FALSE)
               /\ m_queue' = PopQueue(m_queue)
               /\ (m_queue # <<>>) => (message'[t] = m_queue[1])
               /\ (m_queue = <<>>) => (message' = message)
               /\ pushed' = pushed
               /\ m_cancelled' = m_cancelled]_vars

\* cancel(), then push (the second call), then a non-blocking pop: the push
\* stored its message on the cancelled queue and the pop removed it.
FlagInfluencesOnlyBlockingPopWitness ==
    /\ m_cancelled /\ cancelDone
    /\ calls = 3
    /\ pushed = <<2>> /\ popped = <<2>>
    /\ returned.op = "pop_nb" /\ returned.ret = 1

\* The number of places (stored in queue q, handed to a successful pop in p)
\* message m is in.
PlacesIn(m, q, p) ==
    Cardinality({i \in 1..Len(q) : q[i] = m})
      + Cardinality({i \in 1..Len(p) : p[i] = m})

Places(m) == PlacesIn(m, m_queue, popped)

\* The messages of the pushes that are still between call and return.
PushesInFlight == {t \in Threads : op[t] = "push" /\ pc[t] # "idle"}

\* Every accepted message is in exactly one place, nothing else is in any
\* place, and the counts add up.
Conserved ==
    /\ \A m \in Range(pushed) : Places(m) = 1
    /\ Range(m_queue) \cup Range(popped) \subseteq Range(pushed)
    /\ Cardinality(Range(pushed)) = Len(pushed)
    /\ Len(pushed) = Len(m_queue) + Len(popped)
    /\ \A t \in PushesInFlight :
          /\ arg[t] \notin Range(pushed)
          /\ \A u \in PushesInFlight \ {t} : arg[u] # arg[t]

\* A push that returns 0 leaves its message out of every place, a push that
\* returns a count stores its message once, a pop that returns a count hands
\* out the message it removed, and the places change in no other step.
ConservedStep ==
    /\ \A t \in Threads :
         /\ (op[t] = "push" /\ LeavesCS(t)) =>
               IF returned'.ret > 0
               THEN /\ pushed' = Append(pushed, arg[t])
                    /\ Places(arg[t]) = 0 /\ PlacesIn(arg[t], m_queue', popped') = 1
               ELSE /\ UNCHANGED <<pushed, m_queue, popped>>
                    /\ PlacesIn(arg[t], m_queue', popped') = 0
         /\ (InPop(t) /\ pc'[t] = "idle" /\ pc[t] # "idle") =>
               IF returned'.ret > 0
               THEN /\ popped' = Append(popped, message'[t])
                    /\ PlacesIn(message'[t], m_queue, popped) = 1
                    /\ PlacesIn(message'[t], m_queue', popped') = 1
                    /\ Len(m_queue') = Len(m_queue) - 1
                    /\ pushed' = pushed
               ELSE UNCHANGED <<pushed, m_queue, popped>>
    /\ (<<pushed, m_queue, popped>>' # <<pushed, m_queue, popped>>) =>
          \E t \in Threads :
             /\ op[t] \in {"push", "pop_b", "pop_nb"}
             /\ ReturnsWith(t, returned'.ret) /\ returned'.ret > 0

\* C22: message conservation.  In every reachable state each successfully
\* pushed message is in exactly one place, stored once in the queue or handed
\* to exactly one successful pop; no message is delivered twice; the message
\* of a rejected push is never stored or delivered; and the number of
\* successful pushes is the queue length plus the number of successful pops.
MessageConservation == []Conserved /\ [][ConservedStep]_vars

\* With capacity 1: message 1 was stored and handed out, message 3 is stored,
\* and the push of message 4 has just been rejected.
MessageConservationWitness ==
    /\ m_max_capacity = 1 /\ calls = 4
    /\ pushed = <<1, 3>> /\ popped = <<1>> /\ m_queue = <<3>>
    /\ returned.op = "push" /\ returned.ret = 0

====
